---- MODULE Spec2Model ----
(***************************************************************************)
(* Model of src/apps/cli.ts, the command-line front end of the Container   *)
(* Kit MCP server: option parsing and validation, mode dispatch            *)
(* (validate, list-tools, health-check, run), the error path of main and   *)
(* the process-level signal and fatal-error handlers.                      *)
(*                                                                         *)
(* JavaScript runs each callback to completion, so an action is one        *)
(* synchronous stretch of code; other callbacks (a signal handler, the     *)
(* uncaughtException handler) run only while main is suspended at an await *)
(* or has returned.  process.exit() ends the process on the spot.          *)
(***************************************************************************)
EXTENDS Integers, Sequences, FiniteSets, TLC

(***************************************************************************)
(* Values                                                                  *)
(***************************************************************************)

\* JavaScript's undefined, for an option that was not given.
Undefined == "undefined"

\* An empty string, undefined, 0 and NaN are falsy.
TruthyString(s) == s # Undefined /\ s # ""

NotANumber == [tag |-> "NaN", val |-> 0]
NoPort     == [tag |-> "undefined", val |-> 0]
Num(n)     == [tag |-> "num", val |-> n]

TruthyNumber(p) == p.tag = "num" /\ p.val # 0

(***************************************************************************)
(* parseInt, as commander applies it to --port: parseInt(value, previous)  *)
(* with previous undefined, so the radix is 10, or 16 after a 0x prefix.   *)
(* Strings are sequences of one-character strings.                         *)
(***************************************************************************)

DigitValue(c) ==
  CASE c = "0" -> 0 [] c = "1" -> 1 [] c = "2" -> 2 [] c = "3" -> 3
    [] c = "4" -> 4 [] c = "5" -> 5 [] c = "6" -> 6 [] c = "7" -> 7
    [] c = "8" -> 8 [] c = "9" -> 9
    [] c \in {"a", "A"} -> 10 [] c \in {"b", "B"} -> 11
    [] c \in {"c", "C"} -> 12 [] c \in {"d", "D"} -> 13
    [] c \in {"e", "E"} -> 14 [] c \in {"f", "F"} -> 15
    [] OTHER -> 99

RECURSIVE SkipSpace(_)
SkipSpace(s) ==
  IF s # <<>> /\ Head(s) = " " THEN SkipSpace(Tail(s)) ELSE s

\* The longest prefix of digits of the radix, read left to right.
RECURSIVE ParseDigits(_, _, _, _)
ParseDigits(s, radix, acc, seen) ==
  IF s # <<>> /\ DigitValue(Head(s)) < radix
  THEN ParseDigits(Tail(s), radix, acc * radix + DigitValue(Head(s)), TRUE)
  ELSE [seen |-> seen, val |-> acc]

HasHexPrefix(s) ==
  Len(s) >= 2 /\ s[1] = "0" /\ s[2] \in {"x", "X"}

parseInt(text) ==
  LET s1   == SkipSpace(text)
      neg  == s1 # <<>> /\ Head(s1) = "-"
      s2   == IF s1 # <<>> /\ Head(s1) \in {"-", "+"} THEN Tail(s1) ELSE s1
      hex  == HasHexPrefix(s2)
      s3   == IF hex THEN Tail(Tail(s2)) ELSE s2
      r    == ParseDigits(s3, IF hex THEN 16 ELSE 10, 0, FALSE)
  IN IF ~r.seen THEN NotANumber
     ELSE Num(IF neg THEN 0 - r.val ELSE r.val)

(***************************************************************************)
(* program.option(...) and program.opts(): defaults and argument parsers.  *)
(***************************************************************************)

Cwd == "/work"
DefaultDockerSocket == "/var/run/docker.sock"

OrDefault(v, d) == IF v = Undefined THEN d ELSE v

ProgramOpts(args) ==
  [ config       |-> args.config,
    logLevel     |-> OrDefault(args.logLevel, "info"),
    workspace    |-> OrDefault(args.workspace, Cwd),
    port         |-> IF args.port.given THEN parseInt(args.port.text) ELSE NoPort,
    dev          |-> args.dev,
    mock         |-> args.mock,
    validate     |-> args.validate,
    listTools    |-> args.listTools,
    healthCheck  |-> args.healthCheck,
    dockerSocket |-> OrDefault(args.dockerSocket, DefaultDockerSocket),
    k8sNamespace |-> OrDefault(args.k8sNamespace, "default") ]

(***************************************************************************)
(* The file system as statSync sees it.                                    *)
(***************************************************************************)

Paths == {"/work", "/etc/app.env", "/var/run/docker.sock", "/nonexistent"}

FileSystem(dockerPresent) ==
  [p \in Paths |->
     CASE p = "/work" -> "dir"
       [] p = "/etc/app.env" -> "file"
       [] p = "/var/run/docker.sock" ->
            IF dockerPresent THEN "socket" ELSE "missing"
       [] OTHER -> "missing"]

\* statSync(path) throws when nothing is there.
StatThrows(files, path) == files[path] = "missing"

(***************************************************************************)
(* validateOptions                                                         *)
(***************************************************************************)

validLogLevels == {"debug", "info", "warn", "error"}

MinPort == 1
MaxPort == 65535

Err(kind, value) == <<[kind |-> kind, value |-> value]>>

LogLevelErrors(opts) ==
  IF TruthyString(opts.logLevel) /\ opts.logLevel \notin validLogLevels
  THEN Err("logLevel", opts.logLevel) ELSE <<>>

PortErrors(opts) ==
  IF TruthyNumber(opts.port)
     /\ (opts.port.val < MinPort \/ opts.port.val > MaxPort)
  THEN Err("port", opts.port) ELSE <<>>

WorkspaceErrors(opts, files) ==
  IF TruthyString(opts.workspace)
  THEN IF StatThrows(files, opts.workspace)
       THEN Err("workspaceMissing", opts.workspace)
       ELSE IF files[opts.workspace] # "dir"
            THEN Err("workspaceNotDirectory", opts.workspace)
            ELSE <<>>
  ELSE <<>>

\* A variant of DockerSocketErrors that checks the socket in mock mode too.
DockerSocketErrorsAlways(opts, files) ==
  IF TruthyString(opts.dockerSocket) /\ StatThrows(files, opts.dockerSocket)
  THEN Err("dockerSocket", opts.dockerSocket) ELSE <<>>

DockerSocketErrors(opts, files) ==
  IF ~opts.mock /\ TruthyString(opts.dockerSocket)
  THEN IF StatThrows(files, opts.dockerSocket)
       THEN Err("dockerSocket", opts.dockerSocket) ELSE <<>>
  ELSE <<>>

ConfigErrors(opts, files) ==
  IF TruthyString(opts.config) /\ StatThrows(files, opts.config)
  THEN Err("config", opts.config) ELSE <<>>

validateOptions(opts, files) ==
  LET errors == LogLevelErrors(opts) \o PortErrors(opts)
                \o WorkspaceErrors(opts, files)
                \o DockerSocketErrors(opts, files)
                \o ConfigErrors(opts, files)
  IN [valid |-> Len(errors) = 0, errors |-> errors]

(***************************************************************************)
(* The error path of main: String.prototype.includes and the guidance      *)
(* blocks printed for a caught error.                                      *)
(***************************************************************************)

\* s.includes(pat): pat occurs in s from some position on, tried left to
\* right.
RECURSIVE includesFrom(_, _, _)
includesFrom(s, pat, i) ==
  IF i + Len(pat) - 1 > Len(s) THEN FALSE
  ELSE IF SubSeq(s, i, i + Len(pat) - 1) = pat THEN TRUE
  ELSE includesFrom(s, pat, i + 1)

includes(s, pat) == includesFrom(s, pat, 1)

StrDocker == <<"D", "o", "c", "k", "e", "r">>
StrENOENT == <<"E", "N", "O", "E", "N", "T">>
StrEADDRINUSE == <<"E", "A", "D", "D", "R", "I", "N", "U", "S", "E">>
StrPermission == <<"p", "e", "r", "m", "i", "s", "s", "i", "o", "n">>
StrEACCES == <<"E", "A", "C", "C", "E", "S">>
StrConfigLower == <<"c", "o", "n", "f", "i", "g">>
StrConfigUpper == <<"C", "o", "n", "f", "i", "g">>

When(cond, block) == IF cond THEN <<block>> ELSE <<>>

\* A variant of GuidanceBlocks written as an else-if chain: only the first
\* matching block is printed.
GuidanceBlocksFirstOnly(message) ==
  IF includes(message, StrDocker) \/ includes(message, StrENOENT)
  THEN <<"DockerIssue">>
  ELSE IF includes(message, StrEADDRINUSE) THEN <<"PortConflict">>
  ELSE IF includes(message, StrPermission) \/ includes(message, StrEACCES)
  THEN <<"PermissionIssue">>
  ELSE IF includes(message, StrConfigLower) \/ includes(message, StrConfigUpper)
  THEN <<"ConfigIssue">>
  ELSE <<>>

\* The four independent ifs of the catch block, in their order.
GuidanceBlocks(message) ==
  When(includes(message, StrDocker) \/ includes(message, StrENOENT),
       "DockerIssue")
  \o When(includes(message, StrEADDRINUSE), "PortConflict")
  \o When(includes(message, StrPermission) \/ includes(message, StrEACCES),
          "PermissionIssue")
  \o When(includes(message, StrConfigLower) \/ includes(message, StrConfigUpper),
          "ConfigIssue")

\* What the catch block of main writes to the console for a caught value e:
\* a value that is no Error instance gets the headline only.
CatchOutput(e, dev) ==
  <<"StartupFailed">>
  \o (IF e.isError
      THEN <<"ErrorMessage">> \o GuidanceBlocks(e.message)
           \o <<"Troubleshooting">>
           \o (IF e.hasStack /\ dev THEN <<"StackTrace">>
               ELSE IF ~dev THEN <<"DevHint">> ELSE <<>>)
      ELSE <<>>)

(***************************************************************************)
(* Inputs: error values a collaborator may throw, messages among them.     *)
(***************************************************************************)

MsgPortInUse == <<"E", "A", "D", "D", "R", "I", "N", "U", "S", "E", ":", " ", "p", "o", "r", "t", " ", "3", "0", "0", "0">>
MsgSocket == <<"c", "o", "n", "n", "e", "c", "t", " ", "E", "N", "O", "E", "N", "T", " ", "d", "o", "c", "k", "e", "r", ".", "s", "o", "c", "k">>
MsgDockerPermission == <<"D", "o", "c", "k", "e", "r", " ", "p", "e", "r", "m", "i", "s", "s", "i", "o", "n", " ", "d", "e", "n", "i", "e", "d">>
MsgAccessConfig == <<"E", "A", "C", "C", "E", "S", ":", " ", "b", "a", "d", " ", "C", "o", "n", "f", "i", "g">>
MsgInvalidConfig == <<"I", "n", "v", "a", "l", "i", "d", " ", "c", "o", "n", "f", "i", "g">>
MsgLowerDocker == <<"d", "o", "c", "k", "e", "r">>
MsgBoom == <<"b", "o", "o", "m">>
MsgAll == <<"D", "o", "c", "k", "e", "r", " ", "E", "A", "D", "D", "R", "I", "N", "U", "S", "E", " ", "E", "A", "C", "C", "E", "S", " ", "c", "o", "n", "f", "i", "g">>

Messages == {MsgPortInUse, MsgSocket, MsgDockerPermission, MsgAccessConfig,
             MsgInvalidConfig, MsgLowerDocker, MsgBoom, MsgAll}

ErrorObject(message) == [isError |-> TRUE, message |-> message, hasStack |-> TRUE]

\* Error instances, an Error whose stack was removed, and a thrown value that
\* is no Error instance although it carries a message (a plain object).
ThrownValues ==
  {ErrorObject(m) : m \in Messages}
  \cup {[isError |-> TRUE, message |-> MsgBoom, hasStack |-> FALSE],
        [isError |-> FALSE, message |-> MsgSocket, hasStack |-> FALSE],
        [isError |-> FALSE, message |-> MsgBoom, hasStack |-> FALSE]}

(***************************************************************************)
(* Rendering of list-tools mode: group by category, then Object.entries.   *)
(***************************************************************************)

\* tool.category || 'utility'
CategoryOf(tool) ==
  IF TruthyString(tool.category) THEN tool.category ELSE "utility"

\* The keys of the accumulator of reduce, in insertion order.
RECURSIVE InsertionKeys(_, _)
InsertionKeys(tools, keys) ==
  IF tools = <<>> THEN keys
  ELSE LET c == CategoryOf(Head(tools))
       IN InsertionKeys(Tail(tools),
                        IF \E i \in 1..Len(keys) : keys[i] = c
                        THEN keys ELSE Append(keys, c))

\* A key that is a canonical array index; Object.entries lists such keys
\* first, in ascending numeric order, and the other keys in insertion order.
ArrayIndex(key) == CASE key = "2" -> 2 [] key = "10" -> 10 [] OTHER -> -1

RECURSIVE SortedIndexKeys(_)
SortedIndexKeys(keySet) ==
  IF keySet = {} THEN <<>>
  ELSE LET k == CHOOSE x \in keySet :
                  \A y \in keySet : ArrayIndex(x) <= ArrayIndex(y)
       IN <<k>> \o SortedIndexKeys(keySet \ {k})

ObjectKeys(insertion) ==
  SortedIndexKeys({insertion[i] : i \in {j \in 1..Len(insertion) :
                                           ArrayIndex(insertion[j]) >= 0}})
  \o SelectSeq(insertion, LAMBDA k : ArrayIndex(k) < 0)

toUpperCase(category) ==
  CASE category = "utility" -> "UTILITY"
    [] category = "build" -> "BUILD"
    [] OTHER -> category

RECURSIVE RenderGroups(_, _)
RenderGroups(keys, tools) ==
  IF keys = <<>> THEN <<>>
  ELSE LET k == Head(keys)
           members == SelectSeq(tools, LAMBDA t : CategoryOf(t) = k)
       IN <<[line |-> "header", text |-> toUpperCase(k)]>>
          \o [i \in 1..Len(members) |->
                [line |-> "tool", text |-> members[i].name]]
          \o RenderGroups(Tail(keys), tools)

\* The console output of list-tools mode for the value listTools resolved to.
RenderToolList(response) ==
  <<[line |-> "title", text |-> "Available tools:"]>>
  \o (IF response.hasTools
      THEN RenderGroups(ObjectKeys(InsertionKeys(response.tools, <<>>)),
                        response.tools)
           \o <<[line |-> "total", text |-> Len(response.tools)]>>
      ELSE <<>>)

(***************************************************************************)
(* State                                                                   *)
(***************************************************************************)

VARIABLES
  argv,              \* the raw command line
  options,           \* program.opts()
  fs,                \* the file system
  pc,                \* where main is: a statement, an await, or "exited"
  procState,         \* "alive", "exited" (process.exit) or "killed" (a signal)
  exitCode,          \* the code given to process.exit, -1 before
  exitSite,          \* which exit call ended the process
  exitCount,         \* how many times exit was called
  killedBy,          \* the signal that killed the process, if one did
  validation,        \* <<>> or <<the result of validateOptions>>
  env,               \* the environment variables main has written
  configBuilt,       \* createConfig returned
  serverConstructed, \* new ContainerKitMCPServer(config) returned
  modesEntered,      \* the mode blocks main has entered
  calls,             \* the collaborator operations invoked, in order
  inFlight,          \* the operations whose awaitable has not settled
  shutdownResult,    \* <<>> or <<how server.shutdown() ended>>
  received,          \* <<>> or <<what listTools or getHealth resolved to>>
  stdout,            \* console.log output, by block
  stderr,            \* console.error output, by block
  thrown,            \* <<>> or <<[site, value]>>: an error thrown in main
  caught,            \* <<>> or <<the value the catch block of main caught>>
  listeners,         \* listeners registered per termination signal
  pending,           \* signals received and not yet handled
  handled            \* the signals whose handler has run

cliVars    == <<argv, options, fs>>
procVars   == <<procState, exitCode, exitSite, exitCount, killedBy>>
mainVars   == <<validation, env, configBuilt, serverConstructed, modesEntered>>
serverVars == <<calls, inFlight, shutdownResult, received>>
ioVars     == <<stdout, stderr>>
errVars    == <<thrown, caught>>
sigVars    == <<listeners, pending, handled>>

vars == <<cliVars, pc, procVars, mainVars, serverVars, ioVars, errVars, sigVars>>

Signals == {"SIGTERM", "SIGINT"}

\* How many received signals may wait for the event loop.
MaxPending == 2

\* How many tools a listTools response holds at most.
MaxTools == 2

(***************************************************************************)
(* Initial states: a command line, a file system, main not yet run.        *)
(***************************************************************************)

NotGiven == [given |-> FALSE, text |-> <<>>]
Given(text) == [given |-> TRUE, text |-> text]

Args(logLevels, ports, workspaces, dockerSockets, configs) ==
  [ config : configs, logLevel : logLevels, workspace : workspaces,
    port : ports, dev : BOOLEAN, mock : BOOLEAN, validate : BOOLEAN,
    listTools : BOOLEAN, healthCheck : BOOLEAN,
    dockerSocket : dockerSockets, k8sNamespace : {Undefined} ]

InitWith(argSet) ==
  /\ argv \in argSet
  /\ options = ProgramOpts(argv)
  /\ fs \in {FileSystem(TRUE), FileSystem(FALSE)}
  /\ pc = "validate"
  /\ procState = "alive"
  /\ exitCode = -1
  /\ exitSite = "none"
  /\ exitCount = 0
  /\ killedBy = "none"
  /\ validation = <<>>
  /\ env = {}
  /\ configBuilt = FALSE
  /\ serverConstructed = FALSE
  /\ modesEntered = {}
  /\ calls = <<>>
  /\ inFlight = {}
  /\ shutdownResult = <<>>
  /\ received = <<>>
  /\ stdout = <<>>
  /\ stderr = <<>>
  /\ thrown = <<>>
  /\ caught = <<>>
  /\ listeners = [s \in Signals |-> 0]
  /\ pending = <<>>
  /\ handled = <<>>

\* Command lines for the life cycle: valid and invalid ones, every
\* combination of the mode flags.
Init ==
  InitWith(Args({Undefined, "verbose"},
                {NotGiven, Given(<<"0">>), Given(<<"7", "0", "0", "0", "0">>)},
                {Undefined, "/nonexistent"},
                {Undefined},
                {Undefined}))

\* Command lines for validateOptions: each option over its interesting
\* values, the mode flags left out.
RawPorts ==
  { <<"0">>, <<"-", "1">>, <<"1">>, <<"8", "0", "8", "0">>,
    <<"6", "5", "5", "3", "5">>, <<"6", "5", "5", "3", "6">>,
    <<"a", "b", "c">>, <<"8", "0", "a", "b", "c">>,
    <<"0", "x", "5", "0">>, <<" ", "4", "2">>, <<"+", "7">> }

InitValidate ==
  /\ InitWith(Args({Undefined, "debug", "verbose", ""},
                   {NotGiven} \cup {Given(t) : t \in RawPorts},
                   {Undefined, "/nonexistent", "/etc/app.env", ""},
                   {Undefined, "/nonexistent"},
                   {Undefined, "/etc/app.env", "/nonexistent"}))
  /\ ~argv.dev /\ ~argv.validate /\ ~argv.listTools /\ ~argv.healthCheck

(***************************************************************************)
(* process.exit, throw/catch in main                                       *)
(***************************************************************************)

Exit(code, site) ==
  /\ procState' = "exited"
  /\ exitCode' = code
  /\ exitSite' = site
  /\ exitCount' = exitCount + 1
  /\ killedBy' = killedBy
  /\ pc' = "exited"

\* A variant of Catch that reports the error and exits with code 0.
CatchExitsZero(site, e) ==
  /\ thrown' = <<[site |-> site, value |-> e]>>
  /\ caught' = <<e>>
  /\ stderr' = stderr \o CatchOutput(e, options.dev)
  /\ Exit(0, "catch")

\* An error thrown at `site` inside the try block of main lands in its catch
\* block, which prints and exits with code 1.
Catch(site, e) ==
  /\ thrown' = <<[site |-> site, value |-> e]>>
  /\ caught' = <<e>>
  /\ stderr' = stderr \o CatchOutput(e, options.dev)
  /\ Exit(1, "catch")

Alive == procState = "alive"

(***************************************************************************)
(* main, up to the mode dispatch                                           *)
(***************************************************************************)

\* A variant of Validate in which a failed validation reports and goes on.
ValidateGoesOn ==
  /\ Alive /\ pc = "validate"
  /\ LET v == validateOptions(options, fs)
     IN /\ validation' = <<v>>
        /\ stderr' = IF v.valid THEN stderr
                     ELSE stderr \o <<"ConfigurationErrors">>
                          \o [i \in 1..Len(v.errors) |-> v.errors[i].kind]
        /\ pc' = "setEnv"
        /\ UNCHANGED <<procVars, stdout>>
  /\ UNCHANGED <<cliVars, env, configBuilt, serverConstructed, modesEntered,
                 serverVars, errVars, sigVars>>

Validate ==
  /\ Alive /\ pc = "validate"
  /\ LET v == validateOptions(options, fs)
     IN /\ validation' = <<v>>
        /\ IF v.valid
           THEN /\ pc' = "setEnv"
                /\ UNCHANGED <<procVars, ioVars>>
           ELSE /\ stderr' = stderr \o <<"ConfigurationErrors">>
                             \o [i \in 1..Len(v.errors) |-> v.errors[i].kind]
                /\ stdout' = stdout
                /\ Exit(1, "validation")
  /\ UNCHANGED <<cliVars, env, configBuilt, serverConstructed, modesEntered,
                 serverVars, errVars, sigVars>>

EnvWrites(opts) ==
  (IF TruthyString(opts.logLevel)
   THEN {<<"LOG_LEVEL", opts.logLevel>>} ELSE {})
  \cup (IF TruthyString(opts.workspace)
        THEN {<<"WORKSPACE_DIR", opts.workspace>>} ELSE {})
  \cup (IF TruthyString(opts.dockerSocket)
        THEN {<<"DOCKER_SOCKET", opts.dockerSocket>>} ELSE {})
  \cup (IF TruthyString(opts.k8sNamespace)
        THEN {<<"K8S_NAMESPACE", opts.k8sNamespace>>} ELSE {})
  \cup (IF opts.dev THEN {<<"NODE_ENV", "development">>} ELSE {})
  \cup (IF opts.mock THEN {<<"MOCK_MODE", "true">>} ELSE {})

SetEnv ==
  /\ Alive /\ pc = "setEnv"
  /\ env' = env \cup EnvWrites(options)
  /\ pc' = "createConfig"
  /\ UNCHANGED <<cliVars, procVars, validation, configBuilt, serverConstructed,
                 modesEntered, serverVars, ioVars, errVars, sigVars>>

\* A variant of AfterConfig without the validate block.
AfterConfigSkipsValidate(opts) == "createServer"

\* The statement after createConfig: the validate block, or on to the server.

AfterConfig(opts) == IF opts.validate THEN "validateMode" ELSE "createServer"

CreateConfig ==
  /\ Alive /\ pc = "createConfig"
  /\ \/ /\ configBuilt' = TRUE
        /\ pc' = AfterConfig(options)
        /\ UNCHANGED <<procVars, stderr, errVars>>
     \/ /\ \E e \in ThrownValues : Catch("createConfig", e)
        /\ UNCHANGED configBuilt
  /\ UNCHANGED <<cliVars, validation, env, serverConstructed, modesEntered,
                 serverVars, stdout, sigVars>>

(***************************************************************************)
(* validate mode                                                           *)
(***************************************************************************)

\* A variant of ValidateMode in which a failed probe fails the run.
ValidateModeStrict ==
  /\ Alive /\ pc = "validateMode"
  /\ modesEntered' = modesEntered \cup {"validate"}
  /\ \E dockerOk \in BOOLEAN, kubectlOk \in BOOLEAN :
       /\ stdout' = stdout \o <<"ConfigurationSummary">>
                    \o (IF ~options.mock
                        THEN <<IF dockerOk THEN "DockerOk" ELSE "DockerFailed">>
                        ELSE <<>>)
                    \o <<IF kubectlOk THEN "KubectlOk" ELSE "KubectlMissing">>
                    \o <<"ValidationComplete">>
       /\ Exit(IF (options.mock \/ dockerOk) /\ kubectlOk THEN 0 ELSE 1,
               "validateMode")
  /\ UNCHANGED <<cliVars, validation, env, configBuilt, serverConstructed,
                 serverVars, stderr, errVars, sigVars>>

\* The validate block: the summary, the two probes (docker version unless
\* mock, kubectl version), each reported whatever it found, and exit(0).
ValidateMode ==
  /\ Alive /\ pc = "validateMode"
  /\ modesEntered' = modesEntered \cup {"validate"}
  /\ \E dockerOk \in BOOLEAN, kubectlOk \in BOOLEAN :
       stdout' = stdout \o <<"ConfigurationSummary">>
                 \o (IF ~options.mock
                     THEN <<IF dockerOk THEN "DockerOk" ELSE "DockerFailed">>
                     ELSE <<>>)
                 \o <<IF kubectlOk THEN "KubectlOk" ELSE "KubectlMissing">>
                 \o <<"ValidationComplete">>
  /\ Exit(0, "validateMode")
  /\ UNCHANGED <<cliVars, validation, env, configBuilt, serverConstructed,
                 serverVars, stderr, errVars, sigVars>>

(***************************************************************************)
(* The collaborator server                                                 *)
(***************************************************************************)

\* The block main goes to once the server is constructed.
AfterServer(opts) ==
  IF opts.listTools THEN "listTools"
  ELSE IF opts.healthCheck THEN "healthCheck" ELSE "run"

CreateServer ==
  /\ Alive /\ pc = "createServer"
  /\ \/ /\ serverConstructed' = TRUE
        /\ pc' = AfterServer(options)
        /\ UNCHANGED <<procVars, stderr, errVars>>
     \/ /\ \E e \in ThrownValues : Catch("constructor", e)
        /\ UNCHANGED serverConstructed
  /\ UNCHANGED <<cliVars, validation, env, configBuilt, modesEntered,
                 serverVars, stdout, sigVars>>

\* server.shutdown() is void or an awaitable: it returns, throws, or hands
\* back a promise that is going to resolve or to reject.
ShutdownResults == {"returns", "throws", "resolves", "rejects"}

ReturnsPromise(result) == result \in {"resolves", "rejects"}

\* A variant of CallShutdown in which the call is left out.
CallShutdownOmitted(result, settled) ==
  /\ calls' = calls
  /\ shutdownResult' = <<result>>
  /\ inFlight' = inFlight \ settled

\* The call server.shutdown() itself, made once the awaited operations in
\* `settled` have settled: recorded, its promise left unawaited.
CallShutdown(result, settled) ==
  /\ calls' = Append(calls, "shutdown")
  /\ shutdownResult' = <<result>>
  /\ inFlight' = (inFlight \ settled)
                 \cup (IF ReturnsPromise(result) THEN {"shutdown"} ELSE {})

Tools ==
  { [name |-> "ping", category |-> "utility"],
    [name |-> "build_image", category |-> "build"],
    [name |-> "scan_image", category |-> Undefined],
    [name |-> "step_two", category |-> "2"] }

ToolSequences == UNION {[1..n -> Tools] : n \in 0..MaxTools}

ToolResponses ==
  {[hasTools |-> TRUE, tools |-> ts] : ts \in ToolSequences}
  \cup {[hasTools |-> FALSE, tools |-> <<>>]}

HealthReports ==
  [status : {"healthy", "unhealthy", "degraded"}, hasMetrics : BOOLEAN]

(***************************************************************************)
(* list-tools mode                                                         *)
(***************************************************************************)

ListToolsBegin ==
  /\ Alive /\ pc = "listTools"
  /\ modesEntered' = modesEntered \cup {"listTools"}
  /\ calls' = Append(calls, "initialize")
  /\ inFlight' = inFlight \cup {"initialize"}
  /\ pc' = "listTools:awaitInitialize"
  /\ UNCHANGED <<cliVars, procVars, validation, env, configBuilt,
                 serverConstructed, shutdownResult, received, ioVars, errVars,
                 sigVars>>

\* A variant of ListToolsInitialized that calls listTools while initialize is
\* still pending.
ListToolsInitializedUnawaited ==
  /\ Alive /\ pc = "listTools:awaitInitialize"
  /\ \/ /\ calls' = Append(calls, "listTools")
        /\ inFlight' = inFlight \cup {"listTools"}
        /\ pc' = "listTools:awaitListTools"
        /\ UNCHANGED <<procVars, stderr, errVars>>
     \/ /\ \E e \in ThrownValues : Catch("initialize", e)
        /\ inFlight' = inFlight \ {"initialize"}
        /\ UNCHANGED calls
  /\ UNCHANGED <<cliVars, mainVars, shutdownResult, received, stdout, sigVars>>

ListToolsInitialized ==
  /\ Alive /\ pc = "listTools:awaitInitialize"
  /\ \/ /\ calls' = Append(calls, "listTools")
        /\ inFlight' = (inFlight \ {"initialize"}) \cup {"listTools"}
        /\ pc' = "listTools:awaitListTools"
        /\ UNCHANGED <<procVars, stderr, errVars>>
     \/ /\ \E e \in ThrownValues : Catch("initialize", e)
        /\ inFlight' = inFlight \ {"initialize"}
        /\ UNCHANGED calls
  /\ UNCHANGED <<cliVars, mainVars, shutdownResult, received, stdout, sigVars>>

ListToolsListed ==
  /\ Alive /\ pc = "listTools:awaitListTools"
  /\ \/ \E response \in ToolResponses, result \in ShutdownResults :
          /\ received' = <<response>>
          /\ stdout' = stdout \o RenderToolList(response)
          /\ CallShutdown(result, {"listTools"})
          /\ IF result = "throws"
             THEN \E e \in ThrownValues : Catch("shutdown", e)
             ELSE Exit(0, "listTools") /\ UNCHANGED <<stderr, errVars>>
     \/ /\ \E e \in ThrownValues : Catch("listTools", e)
        /\ inFlight' = inFlight \ {"listTools"}
        /\ UNCHANGED <<calls, shutdownResult, received, stdout>>
  /\ UNCHANGED <<cliVars, mainVars, sigVars>>

(***************************************************************************)
(* health-check mode                                                       *)
(***************************************************************************)

\* A variant of HealthExitCode that ignores the status.
HealthExitCodeAlwaysZero(status) == 0

\* process.exit(health.status === 'healthy' ? 0 : 1)
HealthExitCode(status) == IF status = "healthy" THEN 0 ELSE 1

RenderHealth(report) ==
  <<"HealthCheckResults",
    IF report.status = "healthy" THEN "StatusHealthy" ELSE "StatusUnhealthy",
    "Uptime", "Services">>
  \o (IF report.hasMetrics THEN <<"Metrics">> ELSE <<>>)

\* A variant of HealthCheckBegin that registers the signal listeners before
\* it calls initialize.
HealthCheckBeginWithListeners ==
  /\ Alive /\ pc = "healthCheck"
  /\ modesEntered' = modesEntered \cup {"healthCheck"}
  /\ calls' = Append(calls, "initialize")
  /\ inFlight' = inFlight \cup {"initialize"}
  /\ listeners' = [s \in Signals |-> listeners[s] + 1]
  /\ pc' = "healthCheck:awaitInitialize"
  /\ UNCHANGED <<cliVars, procVars, validation, env, configBuilt,
                 serverConstructed, shutdownResult, received, ioVars, errVars,
                 pending, handled>>

HealthCheckBegin ==
  /\ Alive /\ pc = "healthCheck"
  /\ modesEntered' = modesEntered \cup {"healthCheck"}
  /\ calls' = Append(calls, "initialize")
  /\ inFlight' = inFlight \cup {"initialize"}
  /\ pc' = "healthCheck:awaitInitialize"
  /\ UNCHANGED <<cliVars, procVars, validation, env, configBuilt,
                 serverConstructed, shutdownResult, received, ioVars, errVars,
                 sigVars>>

HealthCheckInitialized ==
  /\ Alive /\ pc = "healthCheck:awaitInitialize"
  /\ \/ /\ calls' = Append(calls, "getHealth")
        /\ inFlight' = (inFlight \ {"initialize"}) \cup {"getHealth"}
        /\ pc' = "healthCheck:awaitGetHealth"
        /\ UNCHANGED <<procVars, stderr, errVars>>
     \/ /\ \E e \in ThrownValues : Catch("initialize", e)
        /\ inFlight' = inFlight \ {"initialize"}
        /\ UNCHANGED calls
  /\ UNCHANGED <<cliVars, mainVars, shutdownResult, received, stdout, sigVars>>

\* A variant of HealthCheckReported whose error path shuts the server down
\* before it exits.
HealthCheckReportedCleansUp ==
  /\ Alive /\ pc = "healthCheck:awaitGetHealth"
  /\ \/ \E report \in HealthReports, result \in ShutdownResults :
          /\ received' = <<report>>
          /\ stdout' = stdout \o RenderHealth(report)
          /\ CallShutdown(result, {"getHealth"})
          /\ IF result = "throws"
             THEN \E e \in ThrownValues : Catch("shutdown", e)
             ELSE /\ Exit(HealthExitCode(report.status), "healthCheck")
                  /\ UNCHANGED <<stderr, errVars>>
     \/ /\ \E e \in ThrownValues : Catch("getHealth", e)
        /\ \E result \in ShutdownResults \ {"throws"} :
             CallShutdown(result, {"getHealth"})
        /\ UNCHANGED <<received, stdout>>
  /\ UNCHANGED <<cliVars, mainVars, sigVars>>

HealthCheckReported ==
  /\ Alive /\ pc = "healthCheck:awaitGetHealth"
  /\ \/ \E report \in HealthReports, result \in ShutdownResults :
          /\ received' = <<report>>
          /\ stdout' = stdout \o RenderHealth(report)
          /\ CallShutdown(result, {"getHealth"})
          /\ IF result = "throws"
             THEN \E e \in ThrownValues : Catch("shutdown", e)
             ELSE /\ Exit(HealthExitCode(report.status), "healthCheck")
                  /\ UNCHANGED <<stderr, errVars>>
     \/ /\ \E e \in ThrownValues : Catch("getHealth", e)
        /\ inFlight' = inFlight \ {"getHealth"}
        /\ UNCHANGED <<calls, shutdownResult, received, stdout>>
  /\ UNCHANGED <<cliVars, mainVars, sigVars>>

(***************************************************************************)
(* run mode and the termination-signal handler                             *)
(***************************************************************************)

\* A variant of RunBegin that registers the signal listeners before it
\* calls start.
RunBeginRegistersFirst ==
  /\ Alive /\ pc = "run"
  /\ modesEntered' = modesEntered \cup {"run"}
  /\ stdout' = stdout \o <<"StartupBanner">>
  /\ listeners' = [s \in Signals |-> listeners[s] + 1]
  /\ calls' = Append(calls, "start")
  /\ inFlight' = inFlight \cup {"start"}
  /\ pc' = "run:awaitStart"
  /\ UNCHANGED <<cliVars, procVars, validation, env, configBuilt,
                 serverConstructed, shutdownResult, received, stderr, errVars,
                 pending, handled>>

\* Run mode up to its await: the banner, then server.start().
RunBegin ==
  /\ Alive /\ pc = "run"
  /\ modesEntered' = modesEntered \cup {"run"}
  /\ stdout' = stdout \o <<"StartupBanner">>
  /\ calls' = Append(calls, "start")
  /\ inFlight' = inFlight \cup {"start"}
  /\ pc' = "run:awaitStart"
  /\ UNCHANGED <<cliVars, procVars, validation, env, configBuilt,
                 serverConstructed, shutdownResult, received, stderr, errVars,
                 sigVars>>

\* start has settled: main registers the two signal listeners and returns,
\* or lands in its catch block.
\* A variant of RunStarted that registers no signal listener.
RunStartedNoListeners ==
  /\ Alive /\ pc = "run:awaitStart"
  /\ inFlight' = inFlight \ {"start"}
  /\ \/ /\ stdout' = stdout \o <<"ServerStarted">>
        /\ listeners' = listeners
        /\ pc' = "running"
        /\ UNCHANGED <<procVars, stderr, errVars>>
     \/ /\ \E e \in ThrownValues : Catch("start", e)
        /\ UNCHANGED <<stdout, listeners>>
  /\ UNCHANGED <<cliVars, mainVars, calls, shutdownResult, received, pending,
                 handled>>

RunStarted ==
  /\ Alive /\ pc = "run:awaitStart"
  /\ inFlight' = inFlight \ {"start"}
  /\ \/ /\ stdout' = stdout \o <<"ServerStarted">>
        /\ listeners' = [s \in Signals |-> listeners[s] + 1]
        /\ pc' = "running"
        /\ UNCHANGED <<procVars, stderr, errVars>>
     \/ /\ \E e \in ThrownValues : Catch("start", e)
        /\ UNCHANGED <<stdout, listeners>>
  /\ UNCHANGED <<cliVars, mainVars, calls, shutdownResult, received, pending,
                 handled>>

\* main is suspended at an await or has returned: the event loop runs.
AtEventLoop ==
  pc \in {"listTools:awaitInitialize", "listTools:awaitListTools",
          "healthCheck:awaitInitialize", "healthCheck:awaitGetHealth",
          "run:awaitStart", "running"}

\* The operating system delivers a termination signal: without a listener it
\* kills the process; with one it waits for the event loop.
SignalArrives(sig) ==
  /\ Alive
  /\ IF listeners[sig] = 0
     THEN /\ procState' = "killed"
          /\ killedBy' = sig
          /\ pc' = "exited"
          /\ UNCHANGED <<exitCode, exitSite, exitCount, pending>>
     ELSE /\ Len(pending) < MaxPending
          /\ pending' = Append(pending, sig)
          /\ UNCHANGED <<procVars, pc>>
  /\ UNCHANGED <<cliVars, mainVars, serverVars, ioVars, errVars, listeners,
                 handled>>

\* The exit code of the shutdown closure, by how server.shutdown() ended.
ShutdownExitCode(result) == IF result = "throws" THEN 1 ELSE 0

\* A variant of HandleSignal that leaves the exit to a later step.
HandleSignalStaysAlive ==
  /\ Alive /\ AtEventLoop /\ pending # <<>>
  /\ listeners[Head(pending)] > 0
  /\ pending' = Tail(pending)
  /\ handled' = Append(handled, Head(pending))
  /\ \E result \in ShutdownResults :
       /\ CallShutdown(result, {})
       /\ received' = received
       /\ stdout' = stdout \o <<"ReceivedSignal">>
       /\ stderr' = IF result = "throws"
                    THEN stderr \o <<"ShutdownError">> ELSE stderr
  /\ UNCHANGED <<cliVars, pc, procVars, mainVars, errVars, listeners>>

\* The shutdown closure, run by the listener of the signal at the head.
HandleSignal ==
  /\ Alive /\ AtEventLoop /\ pending # <<>>
  /\ listeners[Head(pending)] > 0
  /\ pending' = Tail(pending)
  /\ handled' = Append(handled, Head(pending))
  /\ \E result \in ShutdownResults :
       /\ CallShutdown(result, {})
       /\ received' = received
       /\ IF result = "throws"
          THEN /\ stdout' = stdout \o <<"ReceivedSignal">>
               /\ stderr' = stderr \o <<"ShutdownError">>
               /\ Exit(ShutdownExitCode(result), "shutdownError")
          ELSE /\ stdout' = stdout \o <<"ReceivedSignal", "ShutdownComplete">>
               /\ stderr' = stderr
               /\ Exit(ShutdownExitCode(result), "shutdownComplete")
  /\ UNCHANGED <<cliVars, mainVars, errVars, listeners>>

(***************************************************************************)
(* The uncaughtException and unhandledRejection handlers                   *)
(***************************************************************************)

FatalKinds == {"UncaughtException", "UnhandledRejection"}

\* A variant of Fatal that shuts the server down before it exits.
FatalShutsDown(kind) ==
  /\ Alive /\ AtEventLoop
  /\ stderr' = stderr \o <<kind>>
  /\ \E result \in ShutdownResults : CallShutdown(result, {})
  /\ Exit(1, "fatal")
  /\ UNCHANGED <<cliVars, mainVars, received, stdout, errVars, sigVars>>

\* A variant of Fatal that sets the exit code and lets the process go on.
FatalSetsCodeOnly(kind) ==
  /\ Alive /\ AtEventLoop /\ exitCount = 0
  /\ stderr' = stderr \o <<kind>>
  /\ exitCode' = 1
  /\ exitSite' = "fatal"
  /\ exitCount' = exitCount + 1
  /\ UNCHANGED <<cliVars, pc, procState, killedBy, mainVars, serverVars,
                 stdout, errVars, sigVars>>

\* The uncaughtException and the unhandledRejection listener, registered
\* before main is called: print and exit(1).
Fatal(kind) ==
  /\ Alive /\ AtEventLoop
  /\ stderr' = stderr \o <<kind>>
  /\ Exit(1, "fatal")
  /\ UNCHANGED <<cliVars, mainVars, serverVars, stdout, errVars, sigVars>>

(***************************************************************************)
(* Specifications                                                          *)
(***************************************************************************)

Next ==
  \/ Validate
  \/ SetEnv
  \/ CreateConfig
  \/ ValidateMode
  \/ CreateServer
  \/ ListToolsBegin
  \/ ListToolsInitialized
  \/ ListToolsListed
  \/ HealthCheckBegin
  \/ HealthCheckInitialized
  \/ HealthCheckReported
  \/ RunBegin
  \/ RunStarted
  \/ \E sig \in Signals : SignalArrives(sig)
  \/ HandleSignal
  \/ \E kind \in FatalKinds : Fatal(kind)

Spec == Init /\ [][Next]_vars

\* validateOptions alone, over the wide set of command lines.
NextValidate == Validate

SpecValidate == InitValidate /\ [][NextValidate]_vars

(***************************************************************************)
(* Properties                                                              *)
(***************************************************************************)

Count(seq, x) == Len(SelectSeq(seq, LAMBDA y : y = x))

Validated == validation # <<>>
Errors == validation[1].errors
Exited == procState = "exited"

\* The mode the fixed priority validate > list-tools > health-check > run
\* selects.
ModeByPriority(opts) ==
  IF opts.validate THEN "validate"
  ELSE IF opts.listTools THEN "listTools"
  ELSE IF opts.healthCheck THEN "healthCheck"
  ELSE "run"

ModeExits == {"validateMode", "listTools", "healthCheck",
              "shutdownComplete", "shutdownError"}

\* C1: no mode block other than the one the priority validate > list-tools >
\* health-check > run selects is ever entered; once a collaborator operation
\* has been invoked or the process has left through a mode's exit, exactly
\* that one mode has been entered; and with validate and list-tools both set
\* the server is never constructed, no collaborator operation is invoked, and
\* a run that passed validation and threw nothing exits from validate mode
\* with code 0.
C1_ModePriority ==
  /\ modesEntered \subseteq {ModeByPriority(options)}
  /\ (calls # <<>> \/ exitSite \in ModeExits)
       => modesEntered = {ModeByPriority(options)}
  /\ (options.validate /\ options.listTools)
       => /\ ~serverConstructed
          /\ calls = <<>>
          /\ (Exited /\ Validated /\ validation[1].valid /\ caught = <<>>)
               => (exitSite = "validateMode" /\ exitCode = 0)

C1_Witness ==
  /\ options.validate /\ options.listTools
  /\ exitSite = "validateMode"
  /\ modesEntered = {"validate"}

HealthCheckExited == "healthCheck" \in modesEntered /\ Exited

ReportedHealthy == received # <<>> /\ received[1].status = "healthy"

\* C2 as stated: in health-check mode the exit code is 0 exactly when the
\* report getHealth returned has status healthy, and 1 in every other case.
C2_HealthExitCodeAsStated ==
  HealthCheckExited
    => /\ exitCode \in {0, 1}
       /\ exitCode = 0 <=> ReportedHealthy

\* C2 amended: in health-check mode the exit code is 0 exactly when the
\* report getHealth returned has status healthy and the server.shutdown()
\* call that follows it does not throw; it is 1 in every other case: another
\* status, initialize or getHealth failing, shutdown throwing.
C2_HealthExitCode ==
  HealthCheckExited
    => /\ exitCode \in {0, 1}
       /\ exitCode = 0 <=> (ReportedHealthy /\ shutdownResult # <<"throws">>)

C2_Witness ==
  /\ HealthCheckExited
  /\ ReportedHealthy
  /\ exitSite = "healthCheck"
  /\ exitCode = 0

\* C3: whatever termination signals arrive, server.shutdown() is invoked at
\* most once in a process run, the shutdown closure runs at most once (a
\* second signal never re-enters it), and at most one shutdown error is
\* reported.
C3_ShutdownIdempotent ==
  /\ Count(calls, "shutdown") <= 1
  /\ Len(handled) <= 1
  /\ Count(stderr, "ShutdownError") <= 1

\* Two signals arrived while Running; the first was handled, the second was
\* still waiting when the process exited.
C3_Witness ==
  /\ Len(handled) = 1
  /\ pending # <<>>
  /\ Exited
  /\ Count(calls, "shutdown") = 1

ShutdownFailed == shutdownResult[1] \in {"throws", "rejects"}

\* C4: a process that exits from the shutdown closure exits with code 1 when
\* server.shutdown() failed, by a throw or by a rejected awaitable, and with
\* code 0 when it succeeded.
C4_SignalExitCode ==
  exitSite \in {"shutdownComplete", "shutdownError"}
    => exitCode = (IF ShutdownFailed THEN 1 ELSE 0)

\* C5: an error thrown inside main, at any of its sites, is the value its
\* catch block caught, and the process has exited, once, with code 1 from
\* that catch block.
C5_ErrorsCaught ==
  thrown # <<>>
    => /\ caught = <<thrown[1].value>>
       /\ Exited
       /\ exitCode = 1
       /\ exitSite = "catch"
       /\ exitCount = 1

C5_Witness ==
  /\ thrown # <<>>
  /\ thrown[1].site = "shutdown"
  /\ "listTools" \in modesEntered
  /\ exitCode = 1

\* C6: once validateOptions has returned an invalid result the process has
\* exited with code 1 from the validation step, and nothing else happened:
\* no environment variable written, no configuration, no server, no
\* collaborator operation, no mode entered.
C6_InvalidOptionsExit ==
  (Validated /\ ~validation[1].valid)
    => /\ Exited
       /\ exitCode = 1
       /\ exitSite = "validation"
       /\ env = {}
       /\ ~configBuilt
       /\ ~serverConstructed
       /\ calls = <<>>
       /\ modesEntered = {}

C6_Witness ==
  /\ Validated
  /\ ~validation[1].valid
  /\ Exited
  /\ Len(Errors) = 2

PortErrorCount == Len(SelectSeq(Errors, LAMBDA e : e.kind = "port"))

\* C7: when --port was given and its number is outside 1..65535, validation
\* fails with exactly one port error.
C7_PortOutOfRange ==
  (Validated /\ argv.port.given /\ options.port.tag = "num"
     /\ (options.port.val < 1 \/ options.port.val > 65535))
    => /\ ~validation[1].valid
       /\ PortErrorCount = 1

\* C8: when the log level is none of debug, info, warn, error, validation
\* fails with an error naming the given value.
C8_LogLevelInvalid ==
  (Validated /\ options.logLevel \notin {"debug", "info", "warn", "error"})
    => /\ ~validation[1].valid
       /\ \E i \in 1..Len(Errors) :
            Errors[i].kind = "logLevel" /\ Errors[i].value = options.logLevel

OtherChecks == {"logLevel", "port", "workspaceMissing",
                "workspaceNotDirectory", "config"}

\* C9: with mock set no error is about the Docker socket, every error comes
\* from one of the other checks, and a nonexistent workspace with everything
\* else in order yields exactly the one error about the missing workspace.
C9_MockSkipsDockerSocket ==
  (Validated /\ options.mock)
    => /\ \A i \in 1..Len(Errors) : Errors[i].kind \in OtherChecks
       /\ (/\ options.workspace = "/nonexistent"
           /\ options.logLevel \in {"debug", "info", "warn", "error"}
           /\ options.port = NoPort
           /\ options.config = Undefined)
            => Errors = <<[kind |-> "workspaceMissing",
                           value |-> "/nonexistent"]>>

\* --workspace /nonexistent --mock on a machine without a Docker socket.
C9_Witness ==
  /\ Validated
  /\ options.mock
  /\ StatThrows(fs, options.dockerSocket)
  /\ options.workspace = "/nonexistent"
  /\ Len(Errors) = 1

Categories == {"DockerIssue", "PortConflict", "PermissionIssue", "ConfigIssue"}

Triggers(category) ==
  CASE category = "DockerIssue" -> {StrDocker, StrENOENT}
    [] category = "PortConflict" -> {StrEADDRINUSE}
    [] category = "PermissionIssue" -> {StrPermission, StrEACCES}
    [] category = "ConfigIssue" -> {StrConfigLower, StrConfigUpper}

Occurs(trigger, message) ==
  \E i \in 1..(Len(message) - Len(trigger) + 1) :
    SubSeq(message, i, i + Len(trigger) - 1) = trigger

MatchedCategories(message) ==
  {c \in Categories : \E t \in Triggers(c) : Occurs(t, message)}

PrintedGuidance == SelectSeq(stderr, LAMBDA b : b \in Categories)

PrintedExactly(categories) ==
  /\ {PrintedGuidance[i] : i \in 1..Len(PrintedGuidance)} = categories
  /\ Len(PrintedGuidance) = Cardinality(categories)

\* C10 as stated: for every caught value the guidance blocks printed are
\* exactly the categories whose triggers occur in its message, each once,
\* and the exit code is 1.
C10_GuidanceAsStated ==
  caught # <<>>
    => /\ PrintedExactly(MatchedCategories(caught[1].message))
       /\ exitCode = 1

\* C10 amended: for every caught value that is an Error instance the
\* guidance blocks printed are exactly the categories whose triggers occur
\* in its message, each once; for a caught value that is no Error instance
\* no guidance block is printed; the exit code is 1 either way.
C10_Guidance ==
  caught # <<>>
    => /\ IF caught[1].isError
          THEN PrintedExactly(MatchedCategories(caught[1].message))
          ELSE PrintedGuidance = <<>>
       /\ exitCode = 1

\* The message "EADDRINUSE: port 3000" printed the PortConflict block alone.
C10_Witness ==
  /\ caught = <<ErrorObject(MsgPortInUse)>>
  /\ PrintedGuidance = <<"PortConflict">>
  /\ exitCode = 1

ProbeOutcomes == {"DockerOk", "DockerFailed", "KubectlOk", "KubectlMissing"}

\* What the probes of validate mode reported, in the order they ran.
ProbesReported == SelectSeq(stdout, LAMBDA b : b \in ProbeOutcomes)

\* C11: a run that entered validate mode has exited from it with code 0,
\* whatever the container-runtime probe and the orchestration-client probe
\* reported, and the server was neither constructed nor invoked.
C11_ProbesInformational ==
  "validate" \in modesEntered
    => /\ Exited
       /\ exitSite = "validateMode"
       /\ exitCode = 0
       /\ ProbesReported \in
            {<<d, k>> : d \in {"DockerOk", "DockerFailed"},
                        k \in {"KubectlOk", "KubectlMissing"}}
            \cup {<<k>> : k \in {"KubectlOk", "KubectlMissing"}}
       /\ ~serverConstructed
       /\ calls = <<>>

\* Both probes failed and the process still exited with code 0.
C11_Witness ==
  /\ "validate" \in modesEntered
  /\ ProbesReported = <<"DockerFailed", "KubectlMissing">>
  /\ exitCode = 0

\* The category the specification counts a tool under.
CountedUnder(tool) ==
  IF tool.category = Undefined THEN "utility" ELSE tool.category

\* The distinct elements of a sequence, in order of first occurrence.
RECURSIVE FirstOccurrences(_)
FirstOccurrences(seq) ==
  IF seq = <<>> THEN <<>>
  ELSE <<Head(seq)>>
       \o FirstOccurrences(SelectSeq(Tail(seq), LAMBDA x : x # Head(seq)))

RECURSIVE GroupedLines(_, _)
GroupedLines(categories, tools) ==
  IF categories = <<>> THEN <<>>
  ELSE LET members ==
             SelectSeq(tools, LAMBDA t : CountedUnder(t) = Head(categories))
       IN <<[line |-> "header", text |-> toUpperCase(Head(categories))]>>
          \o [i \in 1..Len(members) |->
                [line |-> "tool", text |-> members[i].name]]
          \o GroupedLines(Tail(categories), tools)

ToolsListed ==
  /\ "listTools" \in modesEntered
  /\ received # <<>>
  /\ received[1].hasTools

\* C12: once listTools has returned a sequence of tools, the output after
\* the title is one group per category in order of first occurrence in the
\* sequence (no category counting as utility), each group holding its tools
\* in the order returned, every tool printed once, and then the total line
\* with the length of the sequence.
C12_GroupsInFirstOccurrenceOrder ==
  ToolsListed
    => LET tools == received[1].tools
           categories ==
             FirstOccurrences([i \in 1..Len(tools) |-> CountedUnder(tools[i])])
       IN Tail(stdout) = GroupedLines(categories, tools)
                         \o <<[line |-> "total", text |-> Len(tools)]>>

\* C13: a process ended by the uncaughtException or the unhandledRejection
\* listener has exited with code 1, by that one exit call, the listener's
\* line being the last thing printed, and server.shutdown() was never
\* invoked in that run; this in whichever state the event found the process:
\* at an await of initialize, listTools, getHealth or start, or Running,
\* with or without a termination signal waiting.
C13_FatalExitsAtOnce ==
  exitSite = "fatal"
    => /\ Exited
       /\ exitCode = 1
       /\ exitCount = 1
       /\ stderr # <<>> /\ stderr[Len(stderr)] \in FatalKinds
       /\ Count(calls, "shutdown") = 0
       /\ shutdownResult = <<>>

\* An unhandled rejection while Running, a termination signal waiting.
C13_Witness ==
  /\ exitSite = "fatal"
  /\ stderr[Len(stderr)] = "UnhandledRejection"
  /\ pending # <<>>
  /\ calls = <<"start">>
  /\ exitCode = 1

HandlersRegistered == \E s \in Signals : listeners[s] > 0

\* C14 as stated: when the signal listeners are registered, initialize and
\* then start have been invoked, in that order, and both have completed.
C14_InitializeThenStartAsStated ==
  HandlersRegistered
    => /\ Len(calls) >= 2
       /\ calls[1] = "initialize"
       /\ calls[2] = "start"
       /\ inFlight \cap {"initialize", "start"} = {}

\* C14 amended: in run mode start is the one collaborator operation main
\* invokes (initialize is not invoked by this layer); the signal listeners
\* are registered, both at once and once each, only after start has
\* completed, and Running is entered with them.
C14_StartThenHandlers ==
  /\ "run" \in modesEntered
       => /\ Len(calls) >= 1 /\ calls[1] = "start"
          /\ Count(calls, "initialize") = 0
  /\ HandlersRegistered
       => /\ modesEntered = {"run"}
          /\ "start" \notin inFlight
          /\ \A s \in Signals : listeners[s] = 1
  /\ pc = "running" <=> (Alive /\ HandlersRegistered)

C14_Witness ==
  /\ pc = "running"
  /\ calls = <<"start">>
  /\ inFlight = {}
  /\ \A s \in Signals : listeners[s] = 1

IsPrefix(a, b) == Len(a) <= Len(b) /\ SubSeq(b, 1, Len(a)) = a

QueryOf(mode) == IF mode = "listTools" THEN "listTools" ELSE "getHealth"

\* C15: in list-tools and in health-check mode the collaborator operations
\* are invoked in the order initialize, the query (listTools or getHealth),
\* shutdown; shutdown is invoked only once the query has returned its value;
\* and a run that left through the mode's own exit made exactly these three
\* calls, shutdown once and last, with initialize and the query completed.
C15_QueryModesOrder ==
  \A mode \in {"listTools", "healthCheck"} :
    mode \in modesEntered
      => /\ IsPrefix(calls, <<"initialize", QueryOf(mode), "shutdown">>)
         /\ Count(calls, "shutdown") = 1 => received # <<>>
         /\ exitSite = mode
              => /\ calls = <<"initialize", QueryOf(mode), "shutdown">>
                 /\ inFlight \subseteq {"shutdown"}
                 /\ exitCount = 1

C15_Witness ==
  /\ exitSite = "healthCheck"
  /\ calls = <<"initialize", "getHealth", "shutdown">>
  /\ shutdownResult = <<"resolves">>
  /\ exitCode = 1

\* A step in which the listener of a queued termination signal ran the
\* shutdown closure and the process exited from it.
ExitBySignal ==
  /\ pending # <<>>
  /\ handled' = Append(handled, Head(pending))
  /\ exitSite' \in {"shutdownComplete", "shutdownError"}

\* A step in which a fatal-error listener exited the process.
ExitByFatal == exitSite' = "fatal" /\ exitCode' = 1

\* C16: every step that leaves Running, sets an exit code or ends the
\* process while in Running is the shutdown closure run for a termination
\* signal or a fatal-error listener; any other step taken in
\* Running leaves the position, the exit code and the process state alone.
C16_RunningHasNoNaturalExit ==
  [][(/\ pc = "running"
      /\ \/ pc' # "running"
         \/ exitCode' # exitCode
         \/ exitCount' # exitCount
         \/ procState' # procState)
       => /\ procState' = "exited"
          /\ exitCount' = exitCount + 1
          /\ ExitBySignal \/ ExitByFatal]_vars

C16_Witness ==
  /\ modesEntered = {"run"}
  /\ calls = <<"start", "shutdown">> /\ "start" \notin inFlight
  /\ procState = "exited"
  /\ exitSite = "shutdownComplete"
  /\ handled = <<"SIGINT">>

\* C17: in every execution process.exit is reached at most once; a process
\* that exited did so exactly once, with code 0 or 1, and stays exited with
\* that code; a process that has not exited (still alive, or killed by a
\* signal it had no listener for) has no exit code set by this program.
C17_ExitCodeSetOnce ==
  /\ exitCount \in {0, 1}
  /\ exitCount = 1 <=> procState = "exited"
  /\ procState = "exited" => exitCode \in {0, 1} /\ exitSite # "none"
  /\ procState # "exited" => exitCode = -1 /\ exitSite = "none"
  /\ procState # "alive" => pc = "exited"

C17_Witness ==
  /\ exitSite = "shutdownError"
  /\ exitCount = 1
  /\ exitCode = 1
  /\ pending # <<>>

ServerOperations ==
  {"initialize", "listTools", "getHealth", "start", "shutdown"}

\* C18: at most one collaborator operation is in progress at any time, and
\* it is the one invoked last: whenever an operation is begun, every
\* operation invoked before it has completed. This holds in every mode,
\* with signals arriving at any point, and when shutdown returns an
\* awaitable that is still pending at the exit.
C18_OneOperationAtATime ==
  /\ inFlight \subseteq ServerOperations
  /\ Cardinality(inFlight) <= 1
  /\ inFlight # {} => calls # <<>> /\ inFlight = {calls[Len(calls)]}
  /\ \A i \in 1..Len(calls) : calls[i] = "shutdown" => i = Len(calls)

C18_Witness ==
  /\ handled # <<>>
  /\ calls = <<"start", "shutdown">>
  /\ shutdownResult = <<"resolves">>
  /\ inFlight = {"shutdown"}

\* C19: each termination-signal listener is registered at most once, and
\* only in run mode after start has completed; a signal is queued for or
\* handled by a listener only then. A signal that arrives earlier (validate,
\* list-tools or health-check mode, or run mode with start pending) kills the
\* process with no shutdown call made, and every shutdown call outside run
\* mode is the mode's own, not a signal's.
C19_HandlersOnceAfterStart ==
  /\ \A s \in Signals : listeners[s] \in {0, 1}
  /\ HandlersRegistered
       => /\ \A s \in Signals : listeners[s] = 1
          /\ modesEntered = {"run"}
          /\ calls # <<>> /\ calls[1] = "start"
          /\ "start" \notin inFlight
  /\ (pending # <<>> \/ handled # <<>>) => HandlersRegistered
  /\ Len(handled) <= 1
  /\ killedBy # "none"
       => /\ ~HandlersRegistered
          /\ Count(calls, "shutdown") = 0
          /\ handled = <<>>
  /\ (Count(calls, "shutdown") > 0 /\ modesEntered # {"run"})
       => handled = <<>> /\ killedBy = "none"

C19_Witness ==
  /\ killedBy = "SIGTERM"
  /\ calls = <<"start">>
  /\ inFlight = {"start"}
  /\ shutdownResult = <<>>

StartupOperations == {"initialize", "listTools", "getHealth", "start"}

\* The run failed in one of the operations that bring the server up or
\* query it.
StartupError ==
  thrown # <<>> /\ thrown[1].site \in StartupOperations

\* C20: when initialize, listTools, getHealth or start throws, the process
\* exits with code 1 from the catch block of main and shutdown has not been
\* invoked, although every operation invoked before the failing one had
\* succeeded; and in every run, of any mode, shutdown is invoked at most
\* once.
C20_NoShutdownOnStartupError ==
  /\ StartupError
       => /\ procState = "exited"
          /\ exitCode = 1
          /\ exitSite = "catch"
          /\ calls # <<>> /\ calls[Len(calls)] = thrown[1].site
          /\ Count(calls, "shutdown") = 0
          /\ shutdownResult = <<>>
  /\ Count(calls, "shutdown") <= 1

C20_Witness ==
  /\ StartupError
  /\ thrown[1].site = "getHealth"
  /\ calls = <<"initialize", "getHealth">>
  /\ exitCode = 1

====
